---------------------------- MODULE Spec2Model ----------------------------
(***************************************************************************)
(* The quality decision and persistence pipeline of the eye image quality  *)
(* checker (src/GrabiUI3.py, with the older entry point src/GrabitUI.py).  *)
(*                                                                         *)
(* Two specifications:                                                     *)
(*   SpecAgg  compute_overall_quality applied to bounded result dicts;     *)
(*   Spec     concurrent script runs (one per session rerun) sharing the   *)
(*            temporary image path, the CSV log and the results directory. *)
(***************************************************************************)
EXTENDS Integers, Sequences, FiniteSets, TLC

(***************************************************************************)
(* Bounds of the model.                                                    *)
(***************************************************************************)
\* largest number of entries of a results dict given to compute_overall_quality
MaxChecks == 3
\* number of script runs (sessions / reruns) that may overlap
MaxRuns == 2
\* the wall clock, in whole seconds, runs from 0 to MaxClock
MaxClock == 1

(***************************************************************************)
(* Enums (GrabiUI3.py lines 19-27).                                        *)
(***************************************************************************)
QualityState == [YES |-> "Y", NO |-> "N", PARTIAL |-> "P"]

OverallQuality ==
    [BAD |-> "Bad Quality", USABLE |-> "Usable Quality", GOOD |-> "Good Quality"]

\* the keys of the results dict built at lines 107-114
CheckNames ==
    {"Eye Presence", "Focus", "Illumination", "Reflection", "Completeness",
     "Resolution"}

\* the checks the display code reads a quality_state from (lines 140-159)
TriStateChecks == {"Reflection", "Completeness", "Resolution"}

\* the checks the code reads a boolean flag from, and the flag's key
BinaryFlagChecks == {"Eye Presence", "Illumination"}

FlagKey(key) == IF key = "Eye Presence" THEN "has_eye" ELSE "lighting_correct"

(***************************************************************************)
(* Raw detector results: Python dicts, here functions whose DOMAIN is the  *)
(* set of keys present.  Every modelled result carries "confidence" (never *)
(* read by the aggregation); quality_state, has_eye and lighting_correct   *)
(* may each be present or absent.  "X" is a quality_state code that is     *)
(* none of Y, N, P.                                                        *)
(***************************************************************************)
Has(res, k) == k \in DOMAIN res

RawResults ==
    { [confidence |-> "c"] }
    \cup { [confidence |-> "c", quality_state |-> q] : q \in {"Y", "N", "P", "X"} }
    \cup { [confidence |-> "c", has_eye |-> b] : b \in BOOLEAN }
    \cup { [confidence |-> "c", lighting_correct |-> b] : b \in BOOLEAN }
    \cup { [confidence |-> "c", quality_state |-> "Y", has_eye |-> FALSE,
            lighting_correct |-> FALSE] }

(***************************************************************************)
(* map_quality_state (lines 29-36): the display string of a code; None     *)
(* (the field is absent, res.get returns None) is "Unknown".               *)
(***************************************************************************)
map_quality_state(code) ==
    IF code = QualityState.YES THEN "Good"
    ELSE IF code = QualityState.NO THEN "Bad"
    ELSE IF code = QualityState.PARTIAL THEN "Partial"
    ELSE "Unknown"

\* res.get("quality_state"): None when the key is absent
GetQualityState(res) ==
    IF Has(res, "quality_state") THEN res["quality_state"] ELSE "None"

(***************************************************************************)
(* compute_overall_quality (lines 38-53).                                  *)
(***************************************************************************)
\* "Y" if res.get(flag, True) else "N": the flag defaulting the wrong way
Mut_FlagState(res, flag) ==
    IF Has(res, flag) THEN (IF res[flag] THEN "Y" ELSE "N") ELSE "Y"

\* "Y" if res.get(flag, False) else "N" (lines 44 and 46)
FlagState(res, flag) ==
    IF Has(res, flag) /\ res[flag] THEN "Y" ELSE "N"

\* the body of the for loop (lines 40-46) for one item: what it appends
StatesOf(key, res) ==
    IF Has(res, "quality_state") THEN << res["quality_state"] >>
    ELSE IF key = "Eye Presence" THEN << FlagState(res, "has_eye") >>
    ELSE IF key = "Illumination" THEN << FlagState(res, "lighting_correct") >>
    ELSE << >>

\* the for loop over results.items() (lines 39-46): the list states
RECURSIVE CollectStates(_)
CollectStates(items) ==
    IF items = << >> THEN << >>
    ELSE StatesOf(Head(items)[1], Head(items)[2]) \o CollectStates(Tail(items))

\* lines 48-53 with "elif any(s == 'Y' ...)" in place of all
Mut_Verdict(states) ==
    IF \E i \in 1..Len(states) : states[i] = "N" THEN OverallQuality.BAD
    ELSE IF \E i \in 1..Len(states) : states[i] = "Y" THEN OverallQuality.GOOD
    ELSE OverallQuality.USABLE

\* lines 48-53: any N, else all Y, else usable
Verdict(states) ==
    IF \E i \in 1..Len(states) : states[i] = "N" THEN OverallQuality.BAD
    ELSE IF \A i \in 1..Len(states) : states[i] = "Y" THEN OverallQuality.GOOD
    ELSE OverallQuality.USABLE

compute_overall_quality(items) == Verdict(CollectStates(items))

(***************************************************************************)
(* A results dict: an ordered sequence of <<key, result>> items with       *)
(* distinct keys (a Python dict keeps insertion order).                    *)
(***************************************************************************)
Keys(d) == { d[i][1] : i \in 1..Len(d) }

VARIABLES
    aggResults,   \* the argument results of compute_overall_quality
    aggStates,    \* its local list states after the loop
    aggOverall,   \* its return value
    aggPc         \* "build" while the caller fills the dict, "returned" after the call

aggVars == << aggResults, aggStates, aggOverall, aggPc >>

(***************************************************************************)
(* The state of the pipeline: script runs 1..MaxRuns of GrabiUI3.py (one   *)
(* per session rerun, Streamlit runs each in its own thread) and the files *)
(* they share.  Run r submits image r.                                     *)
(***************************************************************************)
Runs == 1..MaxRuns

VARIABLES
    pc,          \* pc[r]: where run r stands in the script
    overall,     \* overall[r]: the local overall (line 166), "none" before
    table,       \* table[r]: the Result column of table_data (lines 117-159)
    logExists,   \* logExists[r]: what os.path.exists(log_file) returned (line 181)
    logTs,       \* logTs[r]: the second log_entry's timestamp was taken in (line 176)
    outcome,     \* outcome[r]: what the run reported (lines 191, 193)
    tempFile,    \* content of <tempdir>/temp_eye_image.jpg: 0 no file, r image r
    logFile,     \* rows of saved_results/results_log.csv, << >> while it does not exist
    images,      \* the image files of saved_results: file name -> image
    clock        \* datetime.now(), in whole seconds

pipeVars ==
    << pc, overall, table, logExists, logTs, outcome, tempFile, logFile, images,
       clock >>

vars == << aggVars, pipeVars >>

AggIdle ==
    /\ aggResults = << >>
    /\ aggStates = << >>
    /\ aggOverall = "none"
    /\ aggPc = "build"

InitPipe ==
    /\ pc = [r \in Runs |-> "idle"]
    /\ overall = [r \in Runs |-> "none"]
    /\ table = [r \in Runs |-> << >>]
    /\ logExists = [r \in Runs |-> FALSE]
    /\ logTs = [r \in Runs |-> 0]
    /\ outcome = [r \in Runs |-> [kind |-> "none"]]
    /\ tempFile = 0
    /\ logFile = << >>
    /\ images = [n \in {} |-> 0]
    /\ clock = 0

InitAgg == AggIdle /\ InitPipe

\* the caller adds one entry to the dict (any check, any raw result, any order)
AddResult ==
    /\ aggPc = "build"
    /\ Len(aggResults) < MaxChecks
    /\ \E key \in CheckNames \ Keys(aggResults), res \in RawResults :
           aggResults' = Append(aggResults, << key, res >>)
    /\ UNCHANGED << aggStates, aggOverall, aggPc, pipeVars >>

\* one call of compute_overall_quality(results)
ComputeOverall ==
    /\ aggPc = "build"
    /\ aggStates' = CollectStates(aggResults)
    /\ aggOverall' = compute_overall_quality(aggResults)
    /\ aggPc' = "returned"
    /\ UNCHANGED << aggResults, pipeVars >>

NextAgg == AddResult \/ ComputeOverall

SpecAgg == InitAgg /\ [][NextAgg]_vars

(***************************************************************************)
(* The detectors are external (MainQualitycheck); a run's six predict      *)
(* calls return one of these result dicts, in the key order of lines       *)
(* 107-114.                                                                *)
(***************************************************************************)
DetectorResults(eye, refl) ==
    << << "Eye Presence", [confidence |-> "c", has_eye |-> eye] >>,
       << "Focus", [confidence |-> "c", prediction |-> "Sharp"] >>,
       << "Illumination", [confidence |-> "c", lighting_correct |-> TRUE] >>,
       << "Reflection", [confidence |-> "c", quality_state |-> refl] >>,
       << "Completeness", [confidence |-> "c", quality_state |-> "Y"] >>,
       << "Resolution", [confidence |-> "c", quality_state |-> "Y"] >> >>

DetectorOutcomes ==
    { DetectorResults(TRUE, "Y"),     \* every check good
      DetectorResults(TRUE, "P"),     \* a partial reflection
      DetectorResults(FALSE, "Y") }   \* no eye found

\* results[key]
Lookup(d, key) == d[CHOOSE i \in 1..Len(d) : d[i][1] = key][2]

\* the Result column of table_data (lines 117-159), row[1] of each row
TableData(d) ==
    << IF Has(Lookup(d, "Eye Presence"), "has_eye")
          /\ Lookup(d, "Eye Presence")["has_eye"] THEN "Yes" ELSE "No",
       IF Has(Lookup(d, "Focus"), "prediction")
          THEN Lookup(d, "Focus")["prediction"] ELSE "Unknown",
       IF Has(Lookup(d, "Illumination"), "lighting_correct")
          /\ Lookup(d, "Illumination")["lighting_correct"]
          THEN "Correct" ELSE "Incorrect",
       map_quality_state(GetQualityState(Lookup(d, "Reflection"))),
       map_quality_state(GetQualityState(Lookup(d, "Completeness"))),
       map_quality_state(GetQualityState(Lookup(d, "Resolution"))) >>

(***************************************************************************)
(* The files.                                                              *)
(***************************************************************************)
\* the header line to_csv writes when it creates the log (line 184)
HeaderRow == [kind |-> "header"]

\* the line of one run: log_entry (lines 176-178); run names the run that
\* wrote the line
LogRow(r) ==
    [kind |-> "row", run |-> r, timestamp |-> logTs[r], overall |-> overall[r],
     results |-> table[r]]

\* f"quality_results_{datetime.now().strftime('%Y%m%d_%H%M%S')}.jpg" (line 188):
\* the time at second granularity, no disambiguating suffix
\* (suffix 0 stands for no suffix, n > 0 for _<n>)
FileName(t) == [prefix |-> "quality_results_", stamp |-> t, suffix |-> 0, ext |-> ".jpg"]

\* line 186 with the test dropped: every image is saved
Mut_ShouldSave(o) == TRUE

\* overall != OverallQuality.BAD (line 186)
ShouldSave(o) == o # OverallQuality.BAD

\* the pc values of a run that has written its working copy and not ended
Working == {"analyse", "logcheck", "logwrite", "dispose"}

\* the pc values of a run that has ended: normally, or by an exception
Ended == {"done", "failed_analyse", "failed_log", "failed_move", "crashed"}

(***************************************************************************)
(* The steps of one run of GrabiUI3.py.                                    *)
(***************************************************************************)
\* lines 94-102: the submitted image is saved at the fixed temporary path
WriteTemp(r) ==
    /\ pc[r] = "idle"
    /\ tempFile' = r
    /\ pc' = [pc EXCEPT ![r] = "analyse"]
    /\ UNCHANGED << overall, table, logExists, logTs, outcome, logFile, images,
                    clock, aggVars >>

\* lines 104-166: the detectors read the temporary path, the table is built
\* and the verdict computed
Analyse(r) ==
    /\ pc[r] = "analyse"
    /\ tempFile # 0
    /\ \E d \in DetectorOutcomes :
          /\ overall' = [overall EXCEPT ![r] = compute_overall_quality(d)]
          /\ table' = [table EXCEPT ![r] = TableData(d)]
    /\ pc' = [pc EXCEPT ![r] = "logcheck"]
    /\ UNCHANGED << logExists, logTs, outcome, tempFile, logFile, images, clock,
                    aggVars >>

\* lines 104-114 raising: the temporary file is gone (another run moved it),
\* or a detector raises
AnalyseFails(r) ==
    /\ pc[r] = "analyse"
    /\ pc' = [pc EXCEPT ![r] = "failed_analyse"]
    /\ UNCHANGED << overall, table, logExists, logTs, outcome, tempFile, logFile,
                    images, clock, aggVars >>

\* lines 169-181: the log entry is built and os.path.exists(log_file) read
LogCheck(r) ==
    /\ pc[r] = "logcheck"
    /\ logTs' = [logTs EXCEPT ![r] = clock]
    /\ logExists' = [logExists EXCEPT ![r] = (logFile # << >>)]
    /\ pc' = [pc EXCEPT ![r] = "logwrite"]
    /\ UNCHANGED << overall, table, outcome, tempFile, logFile, images, clock,
                    aggVars >>

\* lines 181-184: append without header when the file existed at line 181,
\* else (re)create the file with header and row (to_csv's default mode "w")
LogWrite(r) ==
    /\ pc[r] = "logwrite"
    /\ logFile' = IF logExists[r] THEN Append(logFile, LogRow(r))
                  ELSE << HeaderRow, LogRow(r) >>
    /\ pc' = [pc EXCEPT ![r] = "dispose"]
    /\ UNCHANGED << overall, table, logExists, logTs, outcome, tempFile, images,
                    clock, aggVars >>

\* lines 182/184 raising (the log cannot be written): nothing catches it
LogWriteFails(r) ==
    /\ pc[r] = "logwrite"
    /\ pc' = [pc EXCEPT ![r] = "failed_log"]
    /\ UNCHANGED << overall, table, logExists, logTs, outcome, tempFile, logFile,
                    images, clock, aggVars >>

\* lines 186-191: the verdict is not BAD, the temporary file is moved to the
\* name of the current second, replacing a file of that name
Save(r) ==
    /\ pc[r] = "dispose"
    /\ ShouldSave(overall[r])
    /\ tempFile # 0
    /\ images' = [n \in DOMAIN images \cup {FileName(clock)} |->
                     IF n = FileName(clock) THEN tempFile ELSE images[n]]
    /\ tempFile' = 0
    /\ outcome' = [outcome EXCEPT ![r] = [kind |-> "saved", path |-> FileName(clock)]]
    /\ pc' = [pc EXCEPT ![r] = "done"]
    /\ UNCHANGED << overall, table, logExists, logTs, logFile, clock, aggVars >>

\* line 190 raising: the temporary file is gone, or the move fails
MoveFails(r) ==
    /\ pc[r] = "dispose"
    /\ ShouldSave(overall[r])
    /\ pc' = [pc EXCEPT ![r] = "failed_move"]
    /\ UNCHANGED << overall, table, logExists, logTs, outcome, tempFile, logFile,
                    images, clock, aggVars >>

\* lines 192-193: the verdict is BAD, the image is not saved; the temporary
\* file stays where it is
Reject(r) ==
    /\ pc[r] = "dispose"
    /\ ~ShouldSave(overall[r])
    /\ outcome' = [outcome EXCEPT ![r] = [kind |-> "rejected"]]
    /\ pc' = [pc EXCEPT ![r] = "done"]
    /\ UNCHANGED << overall, table, logExists, logTs, tempFile, logFile, images,
                    clock, aggVars >>

\* GrabitUI.py line 80: load_detectors() returns six detectors and five names
\* take them, so a run of this entry point ends in ValueError before any image
\* is read
GrabitUIRun(r) ==
    /\ pc[r] = "idle"
    /\ pc' = [pc EXCEPT ![r] = "crashed"]
    /\ UNCHANGED << overall, table, logExists, logTs, outcome, tempFile, logFile,
                    images, clock, aggVars >>

\* a second passes
Tick ==
    /\ clock < MaxClock
    /\ clock' = clock + 1
    /\ UNCHANGED << pc, overall, table, logExists, logTs, outcome, tempFile,
                    logFile, images, aggVars >>

Init == AggIdle /\ InitPipe

Next ==
    \/ \E r \in Runs :
          \/ WriteTemp(r)
          \/ Analyse(r)
          \/ AnalyseFails(r)
          \/ LogCheck(r)
          \/ LogWrite(r)
          \/ LogWriteFails(r)
          \/ Save(r)
          \/ MoveFails(r)
          \/ Reject(r)
          \/ GrabitUIRun(r)
    \/ Tick

Spec == Init /\ [][Next]_vars

(***************************************************************************)
(* Claims about the aggregation (checked under SpecAgg).                   *)
(***************************************************************************)
\* a check is of tri-state kind when its raw result carries a quality_state,
\* of binary-flag kind when it is Eye Presence or Illumination and carries none
IsTriStateResult(res) == Has(res, "quality_state")

IsBinaryFlagResult(key, res) ==
    key \in BinaryFlagChecks /\ ~Has(res, "quality_state")

\* a BAD check: quality_state "N", or a binary flag that is false or absent
IsBadCheck(key, res) ==
    \/ IsTriStateResult(res) /\ res["quality_state"] = "N"
    \/ IsBinaryFlagResult(key, res)
         /\ (~Has(res, FlagKey(key)) \/ ~res[FlagKey(key)])

\* a GOOD check: quality_state "Y", or a binary flag that is true
IsGoodCheck(key, res) ==
    \/ IsTriStateResult(res) /\ res["quality_state"] = "Y"
    \/ IsBinaryFlagResult(key, res)
         /\ Has(res, FlagKey(key)) /\ res[FlagKey(key)]

AnyBadCheck(d) == \E i \in 1..Len(d) : IsBadCheck(d[i][1], d[i][2])

NoBadState == \A i \in 1..Len(aggStates) : aggStates[i] # "N"

AllGoodStates == \A i \in 1..Len(aggStates) : aggStates[i] = "Y"

\* C2: when the included states hold no BAD ("N"), the verdict is GOOD if
\* every included state is GOOD ("Y"), USABLE if the list is non-empty and
\* some included state is not GOOD, and never BAD.
C2_NoBadVerdict ==
    (aggPc = "returned" /\ NoBadState) =>
        /\ AllGoodStates => aggOverall = OverallQuality.GOOD
        /\ (aggStates # << >> /\ ~AllGoodStates)
              => aggOverall = OverallQuality.USABLE
        /\ aggOverall # OverallQuality.BAD

\* C2's case: a GOOD state next to a PARTIAL and an unrecognized one, no BAD,
\* and the call has returned USABLE.
C2_Witness ==
    /\ aggPc = "returned"
    /\ NoBadState
    /\ \E i, j, k \in 1..Len(aggStates) :
          aggStates[i] = "Y" /\ aggStates[j] = "P" /\ aggStates[k] = "X"
    /\ aggOverall = OverallQuality.USABLE

\* a tri-state check whose result has an unrecognized code or no code at all
IsUndeterminedTriState(key, res) ==
    /\ key \in TriStateChecks
    /\ (~Has(res, "quality_state") \/ res["quality_state"] \notin {"Y", "N", "P"})

\* C3: a tri-state check (Reflection, Completeness, Resolution) with an
\* unrecognized quality_state, or with no quality_state field, counts as
\* UNDETERMINED: when no check is BAD the verdict is USABLE, never GOOD.
C3_UndeterminedIsUsable ==
    (/\ aggPc = "returned"
     /\ \E i \in 1..Len(aggResults) :
            IsUndeterminedTriState(aggResults[i][1], aggResults[i][2])
     /\ ~AnyBadCheck(aggResults))
        => aggOverall = OverallQuality.USABLE

(***************************************************************************)
(* Claims about the runs (checked under Spec).                             *)
(***************************************************************************)
\* the lines of the log written by run r
RowsOf(r) ==
    { i \in 1..Len(logFile) : logFile[i].kind = "row" /\ logFile[i].run = r }

\* the runs that ended normally with a verdict other than BAD
Retained == { r \in Runs : pc[r] = "done" /\ overall[r] # OverallQuality.BAD }

\* C4: every run that reaches a verdict and completes has appended exactly
\* one record to the audit log, and the record is still there.
C4_EveryRunLoggedOnce ==
    \A r \in Runs : pc[r] = "done" => Cardinality(RowsOf(r)) = 1

\* quality_results_<YYYYMMDD>_<HHMMSS>[_<n>].<ext>
NameForm(n) ==
    /\ n.prefix = "quality_results_"
    /\ n.stamp \in Nat
    /\ n.suffix \in Nat
    /\ n.ext \in {".jpg", ".jpeg", ".png"}

C6_NoOverwrite == Cardinality(DOMAIN images) = Cardinality(Retained)

\* the runs whose log append has completed
Appended == { r \in Runs : pc[r] \in {"dispose", "done", "failed_move"} }

\* C7: the log is one header line followed by one whole line per run that
\* has appended, none lost and none twice.
C7_OneHeaderOneRowPerRun ==
    logFile # << >> =>
        /\ logFile[1].kind = "header"
        /\ \A i \in 2..Len(logFile) : logFile[i].kind = "row"
        /\ \A r \in Appended : Cardinality(RowsOf(r)) = 1
        /\ Len(logFile) = 1 + Cardinality(Appended)

\* C8: from the moment a run writes its working copy until its disposition,
\* the temporary file holds that run's image.
C8_ExclusiveWorkingCopy ==
    \A r \in Runs : pc[r] \in Working => tempFile = r

\* C9: when a run that has written its working copy ends, on any path, no
\* file is left at the temporary path.
C9_TempGoneAtExit ==
    [][\A r \in Runs :
          (pc[r] \in Working /\ pc'[r] \in Ended) => tempFile' = 0]_vars

\* C10: after a run has ended, completed or failed, every record it left in
\* the log with a verdict other than BAD has its image in the results
\* directory.
C10_RecordsHaveImages ==
    \A i \in 1..Len(logFile) :
        (/\ logFile[i].kind = "row"
         /\ logFile[i].overall # OverallQuality.BAD
         /\ pc[logFile[i].run] \in Ended)
            => \E n \in DOMAIN images : images[n] = logFile[i].run

=============================================================================
